---- MODULE Spec2Model ----
(***************************************************************************)
(* batterrier: a command line tool that reads and writes the battery       *)
(* charge limit exposed under /sys/class/power_supply/BAT?/ and optionally *)
(* persists it with a systemd unit.                                        *)
(*                                                                         *)
(* Text is modelled as a sequence of one-character strings.  The unit file *)
(* is modelled as a sequence of tokens (literal pieces of the formatted    *)
(* text, with the digits of the limit as single characters).               *)
(***************************************************************************)
EXTENDS Integers, Sequences, FiniteSets, TLC

VARIABLES
    \* ---- Percent parsing / formatting (pure function specification) ----
    text,          \* the text handed to Percent::from_str
    parsed,        \* the Result of from_str
    shown,         \* the text Display produced for the parsed Percent
    ppc,           \* "init" | "parsed" | "shown"
    \* ---- file system and service manager ----
    batDirs,       \* candidate battery directories that exist
    files,         \* path -> [exists, data]
    enabled,       \* the unit is registered (enabled) with the service manager
    \* ---- one process invocation ----
    pc,            \* position of the running process
    cmd,           \* "set" | "get" | "clean"
    arg,           \* the text of the <value> argument of `set`
    persist,       \* --persist
    limit,         \* the Percent parsed from arg
    bat,           \* the battery name BatteryLimiter::new resolved
    old,           \* old_limit read by get_value
    log,           \* external process invocations of this run, in order
    result,        \* "none" | "ok" | "err" : what main returned
    exitCode,      \* process exit code
    outCurrent,    \* value printed by get() as current
    outPersisted,  \* value printed by get() as persisted (-1 = "Not set")
    prevSet        \* limit of the previous run when it was a fully successful
                   \* `set --persist`, else -1

pvars == <<text, parsed, shown, ppc>>
svars == <<batDirs, files, enabled>>
rvars == <<pc, cmd, arg, persist, limit, bat, old, log, result, exitCode,
           outCurrent, outPersisted, prevSet>>
vars == <<text, parsed, shown, ppc, batDirs, files, enabled, pc, cmd, arg,
          persist, limit, bat, old, log, result, exitCode, outCurrent,
          outPersisted, prevSet>>

-----------------------------------------------------------------------------
(* Bounds *)

\* longest text handed to Percent::from_str in the parsing specification
MaxLen == 3
\* number of distinct limits the `set` command is invoked with
NumLimits == 3

-----------------------------------------------------------------------------
(* Characters and integers *)

Digits == <<"0", "1", "2", "3", "4", "5", "6", "7", "8", "9">>
DigitSet == {Digits[i] : i \in 1..10}
IsDigit(c) == c \in DigitSet
DigitVal(c) == (CHOOSE i \in 1..10 : Digits[i] = c) - 1
Whitespace == {" ", "\n"}

U8Max == 255
PercentMax == 100

OkVal(v) == [ok |-> TRUE, val |-> v]
ErrVal == [ok |-> FALSE, val |-> 0]

\* u8::from_str digit loop: checked_mul(10) then checked_add(digit)
RECURSIVE ParseDigits(_, _, _)
ParseDigits(s, i, acc) ==
    IF i > Len(s) THEN OkVal(acc)
    ELSE IF ~IsDigit(s[i]) THEN ErrVal
    ELSE IF acc * 10 > U8Max THEN ErrVal
    ELSE IF acc * 10 + DigitVal(s[i]) > U8Max THEN ErrVal
    ELSE ParseDigits(s, i + 1, acc * 10 + DigitVal(s[i]))

\* <u8 as FromStr>::from_str: empty is an error, a lone sign is an error, a
\* leading "+" is skipped, "-" is not a digit of an unsigned type
ParseU8(s) ==
    IF Len(s) = 0 THEN ErrVal
    ELSE IF Len(s) = 1 /\ s[1] \in {"+", "-"} THEN ErrVal
    ELSE IF s[1] = "+" THEN ParseDigits(s, 2, 0)
    ELSE ParseDigits(s, 1, 0)

from_str_NoRangeCheck(s) == ParseU8(s)

from_str_Exclusive(s) ==
    LET value == ParseU8(s) IN
    IF ~value.ok THEN ErrVal
    ELSE IF value.val >= PercentMax THEN ErrVal
    ELSE OkVal(value.val)

\* Percent::from_str
from_str(s) ==
    LET value == ParseU8(s) IN
    IF ~value.ok THEN ErrVal
    ELSE IF value.val > PercentMax THEN ErrVal
    ELSE OkVal(value.val)

\* Display for u8: the decimal digits, most significant first
RECURSIVE FmtU8(_)
FmtU8(n) ==
    IF n < 10 THEN <<Digits[n + 1]>>
    ELSE Append(FmtU8(n \div 10), Digits[(n % 10) + 1])

\* <Percent as Display>::fmt
fmt(p) == FmtU8(p)

\* str::trim
RECURSIVE TrimStart(_)
TrimStart(s) ==
    IF Len(s) > 0 /\ s[1] \in Whitespace THEN TrimStart(Tail(s)) ELSE s
RECURSIVE TrimEnd(_)
TrimEnd(s) ==
    IF Len(s) > 0 /\ s[Len(s)] \in Whitespace
    THEN TrimEnd(SubSeq(s, 1, Len(s) - 1)) ELSE s
Trim(s) == TrimEnd(TrimStart(s))

-----------------------------------------------------------------------------
(* Specification of Percent parsing and formatting *)

Alphabet == DigitSet \cup {"+", "-", "x", " "}
Texts == UNION {[1..n -> Alphabet] : n \in 0..MaxLen}


PInit ==
    /\ text \in Texts
    /\ parsed = ErrVal
    /\ shown = <<>>
    /\ ppc = "init"

\* s.parse::<Percent>()
Parse ==
    /\ ppc = "init"
    /\ parsed' = from_str(text)
    /\ ppc' = "parsed"
    /\ UNCHANGED <<text, shown>>

\* percent.to_string(), for a Percent that was constructed
Show ==
    /\ ppc = "parsed"
    /\ parsed.ok
    /\ shown' = fmt(parsed.val)
    /\ ppc' = "shown"
    /\ UNCHANGED <<text, parsed>>

-----------------------------------------------------------------------------
(* File system, unit file and service manager *)

BAT_NAME == <<"BAT0", "BAT1", "BATT", "BATC">>
BatNames == {BAT_NAME[i] : i \in 1..Len(BAT_NAME)}

SERVICE_FILENAME == "battery-charge-threshold.service"
SERVICE_PATH == <<"/etc/systemd/system", SERVICE_FILENAME>>

bat_path(b) == <<"/sys/class/power_supply", b>>
charge_control_threshold_path(b) == Append(bat_path(b), "charge_control_end_threshold")

Paths == {charge_control_threshold_path(b) : b \in BatNames} \cup {SERVICE_PATH}

NoFile == [exists |-> FALSE, data |-> <<>>]
File(d) == [exists |-> TRUE, data |-> d]

\* Path::display: the components joined by "/"
RECURSIVE PathDisplay(_)
PathDisplay(p) ==
    IF Len(p) = 1 THEN <<p[1]>>
    ELSE PathDisplay(SubSeq(p, 1, Len(p) - 1)) \o <<"/", p[Len(p)]>>

\* the LinuxService read from the bundled battery-charge-threshold.service
ServiceTemplate ==
    [Description |-> <<"Set the battery charge threshold">>,
     ExecStart   |-> <<"/bin/bash -c 'echo ", "6", "0", " > ",
                       "/sys/class/power_supply", "/", "BAT0", "/",
                       "charge_control_end_threshold", "'">>,
     WantedBy    |-> <<"multi-user.target">>]

\* format!("/bin/bash -c 'echo {} > {}'", limit, path.display())
ExecStartFor(l, b) ==
    <<"/bin/bash -c 'echo ">> \o fmt(l) \o <<" > ">>
        \o PathDisplay(charge_control_threshold_path(b)) \o <<"'">>

\* serde_ini::to_string(&LinuxService)
IniToString(svc) ==
    <<"[Unit]", "\r\n", "Description", "=">> \o svc.Description \o
    <<"\r\n", "[Service]", "\r\n", "ExecStart", "=">> \o svc.ExecStart \o
    <<"\r\n", "[Install]", "\r\n", "WantedBy", "=">> \o svc.WantedBy \o
    <<"\r\n">>

LineEnds == {"\r\n", "\n"}
Sections == {"[Unit]", "[Service]", "[Install]"}

\* the value of `key` in `section`: scans the lines keeping the current section
RECURSIVE IniLookup(_, _, _, _, _)
IniLookup(toks, i, cur, section, key) ==
    IF i > Len(toks) THEN [ok |-> FALSE, val |-> <<>>]
    ELSE IF toks[i] \in LineEnds THEN IniLookup(toks, i + 1, cur, section, key)
    ELSE
        LET ends == {j \in i..Len(toks) : toks[j] \in LineEnds}
            e == IF ends = {} THEN Len(toks) + 1
                 ELSE CHOOSE j \in ends : \A k \in ends : j <= k
            line == SubSeq(toks, i, e - 1)
        IN  IF line[1] \in Sections
            THEN IniLookup(toks, e + 1, line[1], section, key)
            ELSE IF Len(line) >= 2 /\ line[2] = "=" /\ cur = section /\ line[1] = key
            THEN [ok |-> TRUE, val |-> SubSeq(line, 3, Len(line))]
            ELSE IniLookup(toks, e + 1, cur, section, key)

\* serde_ini::from_str::<LinuxService>: the three mandatory fields must be present
IniFromStr(toks) ==
    LET d == IniLookup(toks, 1, "", "[Unit]", "Description")
        x == IniLookup(toks, 1, "", "[Service]", "ExecStart")
        w == IniLookup(toks, 1, "", "[Install]", "WantedBy")
    IN  IF d.ok /\ x.ok /\ w.ok
        THEN [ok |-> TRUE,
              val |-> [Description |-> d.val, ExecStart |-> x.val, WantedBy |-> w.val]]
        ELSE [ok |-> FALSE, val |-> ServiceTemplate]

\* the part of the regex of get_persisted before and after the capture group
RegexHead == "/bin/bash -c 'echo "
RegexTail == <<" > ", "/sys/class/power_supply", "/", "BAT0", "/",
               "charge_control_end_threshold", "'">>

\* Regex::captures(..).get(1): the digits of the leftmost match
RegexCaptures(s) ==
    LET ms == {m \in (1..Len(s)) \X (1..Len(s)) :
                 /\ s[m[1]] = RegexHead
                 /\ m[1] + m[2] + Len(RegexTail) <= Len(s)
                 /\ \A k \in 1..m[2] : IsDigit(s[m[1] + k])
                 /\ SubSeq(s, m[1] + m[2] + 1, m[1] + m[2] + Len(RegexTail)) = RegexTail}
    IN  IF ms = {} THEN [ok |-> FALSE, val |-> <<>>]
        ELSE LET m == CHOOSE m \in ms : \A n \in ms : m[1] <= n[1]
             IN  [ok |-> TRUE, val |-> SubSeq(s, m[1] + 1, m[1] + m[2])]

\* BatteryLimiter::get_value: read, trim, parse
get_value(fs, b) ==
    LET f == fs[charge_control_threshold_path(b)] IN
    IF ~f.exists THEN ErrVal ELSE from_str(Trim(f.data))

\* BatteryLimiter::get_persisted
get_persisted(fs) ==
    LET f == fs[SERVICE_PATH] IN
    IF ~f.exists THEN ErrVal
    ELSE LET svc == IniFromStr(f.data) IN
         IF ~svc.ok THEN ErrVal
         ELSE LET c == RegexCaptures(svc.val.ExecStart) IN
              IF ~c.ok THEN ErrVal ELSE from_str(c.val)

\* `echo contents | sudo tee path`: echo appends a newline
Tee(fs, path, contents) == [fs EXCEPT ![path] = File(contents \o <<"\n">>)]

new_Last(dirs, i) ==
    LET hits == {j \in 1..Len(BAT_NAME) : BAT_NAME[j] \in dirs} IN
    IF hits = {} THEN "not_found"
    ELSE BAT_NAME[CHOOSE j \in hits : \A k \in hits : k <= j]

\* BatteryLimiter::new: the loop over BAT_NAME, from index i
RECURSIVE new(_, _)
new(dirs, i) ==
    IF i > Len(BAT_NAME) THEN "not_found"
    ELSE IF BAT_NAME[i] \in dirs THEN BAT_NAME[i]
    ELSE new(dirs, i + 1)

-----------------------------------------------------------------------------
(* The command line tool: one process invocation after another *)

Limits == {(k * PercentMax) \div (NumLimits - 1) : k \in 0..(NumLimits - 1)}
\* <value> arguments: the decimal texts of the limits and one text out of range
ArgTexts == {fmt(v) : v \in Limits} \cup {fmt(PercentMax + 1)}

\* what the control file of an existing battery directory initially holds
InitControl == {NoFile, File(<<"8", "0", "\n">>), File(<<"x", "\n">>)}

\* outcome of an external process invocation:
\*   "ok"        spawned, exited with status 0, its effect applied
\*   "nonzero"   spawned, exited with a non-zero status, no effect
\*   "spawn_err" spawn() or wait() returned an io::Error
Outcomes == {"ok", "nonzero", "spawn_err"}

Step(name, o) == [step |-> name, status |-> o]
AllOk(l) == \A i \in 1..Len(l) : l[i].status = "ok"
StepNames(l) == [i \in 1..Len(l) |-> l[i].step]

Init ==
    /\ text = <<>> /\ parsed = ErrVal /\ shown = <<>> /\ ppc = "off"
    /\ batDirs \in SUBSET BatNames
    /\ files \in [Paths -> InitControl \cup {NoFile}]
    /\ files[SERVICE_PATH] = NoFile
    /\ \A b \in BatNames :
          /\ b \notin batDirs => files[charge_control_threshold_path(b)] = NoFile
          /\ b \in batDirs /\ b # new(batDirs, 1) =>
                files[charge_control_threshold_path(b)] = File(<<"8", "0", "\n">>)
    /\ enabled = FALSE
    /\ pc = "idle"
    /\ cmd = "none" /\ arg = <<>> /\ persist = FALSE /\ limit = -1
    /\ bat = "unresolved" /\ old = -1 /\ log = <<>>
    /\ result = "none" /\ exitCode = -1
    /\ outCurrent = -1 /\ outPersisted = -1 /\ prevSet = -1

\* main returns Err: anyhow prints the error, exit code 1
Fail ==
    /\ result' = "err"
    /\ exitCode' = 1
    /\ pc' = "exit"

\* main returns Ok(())
Succeed ==
    /\ result' = "ok"
    /\ exitCode' = 0
    /\ pc' = "exit"

\* Cli::parse(): clap parses <value> with Percent::from_str and exits with
\* code 2 on a validation error
CliParse(c, a, p) ==
    /\ pc \in {"idle", "exit"}
    /\ prevSet' = IF pc = "exit" /\ cmd = "set" /\ persist /\ result = "ok" /\ AllOk(log)
                  THEN limit ELSE -1
    /\ cmd' = c /\ arg' = a /\ persist' = p
    /\ bat' = "unresolved" /\ old' = -1 /\ log' = <<>>
    /\ outCurrent' = -1 /\ outPersisted' = -1
    /\ IF c = "set" /\ ~from_str(a).ok
       THEN /\ limit' = -1
            /\ result' = "err" /\ exitCode' = 2 /\ pc' = "exit"
       ELSE /\ limit' = IF c = "set" THEN from_str(a).val ELSE -1
            /\ result' = "none" /\ exitCode' = -1 /\ pc' = "new"
    /\ UNCHANGED <<pvars, svars>>

\* let battery_limiter = BatteryLimiter::new()?; match args.command
New ==
    /\ pc = "new"
    /\ bat' = new(batDirs, 1)
    /\ IF bat' = "not_found"
       THEN Fail
       ELSE /\ pc' = CASE cmd = "set" -> "set_get_value"
                       [] cmd = "get" -> "get"
                       [] cmd = "clean" -> "clean_get_value"
            /\ UNCHANGED <<result, exitCode>>
    /\ UNCHANGED <<pvars, svars, cmd, arg, persist, limit, old, log,
                   outCurrent, outPersisted, prevSet>>

\* set: let old_limit = self.get_value()?;
SetGetValue ==
    /\ pc = "set_get_value"
    /\ LET v == get_value(files, bat) IN
       IF ~v.ok
       THEN Fail /\ UNCHANGED old
       ELSE /\ old' = v.val
            /\ pc' = "set_value"
            /\ UNCHANGED <<result, exitCode>>
    /\ UNCHANGED <<pvars, svars, cmd, arg, persist, limit, bat, log,
                   outCurrent, outPersisted, prevSet>>

\* set: self.set_value(limit)?; if !persist { return Ok(()) }
SetValue(o) ==
    /\ pc = "set_value"
    /\ log' = Append(log, Step("write_control", o))
    /\ files' = IF o = "ok"
                THEN Tee(files, charge_control_threshold_path(bat), fmt(limit))
                ELSE files
    /\ IF o = "spawn_err" THEN Fail
       ELSE IF ~persist THEN Succeed
       ELSE pc' = "write_service" /\ UNCHANGED <<result, exitCode>>
    /\ UNCHANGED <<pvars, batDirs, enabled, cmd, arg, persist, limit, bat, old,
                   outCurrent, outPersisted, prevSet>>

\* set: build the unit from the template and write_protected(SERVICE_PATH, ..)?
SetWriteService(o) ==
    /\ pc = "write_service"
    /\ log' = Append(log, Step("write_unit", o))
    /\ LET linux_service == [ServiceTemplate EXCEPT !.ExecStart = ExecStartFor(limit, bat)]
           service_contents == IniToString(linux_service)
       IN  files' = IF o = "ok" THEN Tee(files, SERVICE_PATH, service_contents) ELSE files
    /\ IF o = "spawn_err" THEN Fail
       ELSE pc' = "enable" /\ UNCHANGED <<result, exitCode>>
    /\ UNCHANGED <<pvars, batDirs, enabled, cmd, arg, persist, limit, bat, old,
                   outCurrent, outPersisted, prevSet>>

\* set: sudo systemctl enable battery-charge-threshold.service; Ok(())
\* systemctl can only enable a unit whose file exists
SetEnable(o) ==
    /\ pc = "enable"
    /\ o = "ok" => files[SERVICE_PATH].exists
    /\ log' = Append(log, Step("enable", o))
    /\ enabled' = IF o = "ok" THEN TRUE ELSE enabled
    /\ IF o = "spawn_err" THEN Fail ELSE Succeed
    /\ UNCHANGED <<pvars, batDirs, files, cmd, arg, persist, limit, bat, old,
                   outCurrent, outPersisted, prevSet>>

\* get
Get ==
    /\ pc = "get"
    /\ LET current_limit == get_value(files, bat)
           persisted_limit == get_persisted(files)
       IN  IF ~current_limit.ok
           THEN Fail /\ UNCHANGED <<outCurrent, outPersisted>>
           ELSE /\ outCurrent' = current_limit.val
                /\ outPersisted' = IF persisted_limit.ok THEN persisted_limit.val ELSE -1
                /\ Succeed
    /\ UNCHANGED <<pvars, svars, cmd, arg, persist, limit, bat, old, log, prevSet>>

CleanGetValue_IgnoreError ==
    /\ pc = "clean_get_value"
    /\ LET v == get_value(files, bat) IN
       /\ old' = IF v.ok THEN v.val ELSE PercentMax
       /\ pc' = "clean_set_value"
       /\ UNCHANGED <<result, exitCode>>
    /\ UNCHANGED <<pvars, svars, cmd, arg, persist, limit, bat, log,
                   outCurrent, outPersisted, prevSet>>

\* clean: let old_limit = self.get_value()?;
CleanGetValue ==
    /\ pc = "clean_get_value"
    /\ LET v == get_value(files, bat) IN
       IF ~v.ok
       THEN Fail /\ UNCHANGED old
       ELSE /\ old' = v.val
            /\ pc' = "clean_set_value"
            /\ UNCHANGED <<result, exitCode>>
    /\ UNCHANGED <<pvars, svars, cmd, arg, persist, limit, bat, log,
                   outCurrent, outPersisted, prevSet>>

\* clean: self.set_value(&Percent(100))?;
CleanSetValue(o) ==
    /\ pc = "clean_set_value"
    /\ log' = Append(log, Step("write_control", o))
    /\ files' = IF o = "ok"
                THEN Tee(files, charge_control_threshold_path(bat), fmt(100))
                ELSE files
    /\ IF o = "spawn_err" THEN Fail
       ELSE pc' = "clean_remove" /\ UNCHANGED <<result, exitCode>>
    /\ UNCHANGED <<pvars, batDirs, enabled, cmd, arg, persist, limit, bat, old,
                   outCurrent, outPersisted, prevSet>>

\* clean: if fs::metadata(SERVICE_PATH).is_ok() { sudo rm SERVICE_PATH }; Ok(())
CleanRemove(o) ==
    /\ pc = "clean_remove"
    /\ IF files[SERVICE_PATH].exists
       THEN /\ log' = Append(log, Step("remove_unit", o))
            /\ files' = IF o = "ok" THEN [files EXCEPT ![SERVICE_PATH] = NoFile] ELSE files
            /\ IF o = "spawn_err" THEN Fail ELSE Succeed
       ELSE /\ o = "ok"
            /\ UNCHANGED <<log, files>>
            /\ Succeed
    /\ UNCHANGED <<pvars, batDirs, enabled, cmd, arg, persist, limit, bat, old,
                   outCurrent, outPersisted, prevSet>>

Next ==
    \/ \E a \in ArgTexts, p \in BOOLEAN : CliParse("set", a, p)
    \/ CliParse("get", <<>>, FALSE)
    \/ CliParse("clean", <<>>, FALSE)
    \/ New
    \/ SetGetValue
    \/ \E o \in Outcomes : SetValue(o)
    \/ \E o \in Outcomes : SetWriteService(o)
    \/ \E o \in Outcomes : SetEnable(o)
    \/ Get
    \/ CleanGetValue
    \/ \E o \in Outcomes : CleanSetValue(o)
    \/ \E o \in Outcomes : CleanRemove(o)

Spec == Init /\ [][Next]_vars

\* the parsing specification: the tool's state is held fixed
ParseInit ==
    /\ PInit
    /\ batDirs = {} /\ files = [q \in Paths |-> NoFile] /\ enabled = FALSE
    /\ pc = "off"
    /\ cmd = "none" /\ arg = <<>> /\ persist = FALSE /\ limit = -1
    /\ bat = "unresolved" /\ old = -1 /\ log = <<>>
    /\ result = "none" /\ exitCode = -1
    /\ outCurrent = -1 /\ outPersisted = -1 /\ prevSet = -1

ParseNext ==
    \/ Parse /\ UNCHANGED <<svars, rvars>>
    \/ Show /\ UNCHANGED <<svars, rvars>>

ParseSpec == ParseInit /\ [][ParseNext]_vars

-----------------------------------------------------------------------------
(* Properties *)

RECURSIVE Pow10(_)
Pow10(n) == IF n = 0 THEN 1 ELSE 10 * Pow10(n - 1)

AllDigits(t) == \A i \in 1..Len(t) : IsDigit(t[i])

\* the integer a non-empty digit string denotes
RECURSIVE DecValue(_)
DecValue(t) ==
    IF Len(t) = 0 THEN 0
    ELSE DigitVal(t[1]) * Pow10(Len(t) - 1) + DecValue(Tail(t))

\* t is an optionally signed integer numeral
IsIntegerText(t) ==
    /\ Len(t) >= 1
    /\ IF t[1] \in {"+", "-"} THEN Len(t) >= 2 /\ AllDigits(Tail(t)) ELSE AllDigits(t)

IntOf(t) ==
    IF t[1] = "-" THEN 0 - DecValue(Tail(t))
    ELSE IF t[1] = "+" THEN DecValue(Tail(t))
    ELSE DecValue(t)

\* t is the decimal text of an integer: digits only, no leading zero
IsDecimalText(t) ==
    /\ Len(t) >= 1
    /\ AllDigits(t)
    /\ Len(t) > 1 => t[1] # "0"

ControlPath == charge_control_threshold_path(bat)

\* C1: after set(v, persist = true) completed with every external step
\* succeeding, the get() run next reports current = v and persisted = v, for
\* whichever candidate device was resolved.
C1_SetPersistThenGet ==
    (pc = "exit" /\ cmd = "get" /\ prevSet # -1) =>
        /\ result = "ok"
        /\ outCurrent = prevSet
        /\ outPersisted = prevSet

\* C2: a clean() whose external steps all succeeded leaves the control file
\* holding 100, no unit file at SERVICE_PATH and the unit no longer enabled.
C2_CleanResetsEverything ==
    (pc = "exit" /\ cmd = "clean" /\ result = "ok" /\ AllOk(log)) =>
        /\ get_value(files, bat) = OkVal(100)
        /\ ~files[SERVICE_PATH].exists
        /\ ~enabled

\* C3: set(limit, persist = false) that read a control value equal to limit
\* returns success without any privileged write or service-manager invocation.
C3_ShortCircuit ==
    (pc = "exit" /\ cmd = "set" /\ ~persist /\ old # -1 /\ old = limit) =>
        /\ result = "ok"
        /\ log = <<>>

\* C4: a successful set(limit, persist = true) performed exactly the five
\* external steps write control value, write unit file, enable, daemon-reload,
\* restart, in this order.
C4_FiveSteps ==
    (pc = "exit" /\ cmd = "set" /\ persist /\ result = "ok" /\ AllOk(log)) =>
        StepNames(log) =
            <<"write_control", "write_unit", "enable", "daemon_reload", "restart">>

\* C5: when an external step of set() or clean() exited with a non-zero
\* status, the operation returned an error and the exit code is non-zero.
C5_NonZeroPropagates ==
    (pc = "exit" /\ cmd \in {"set", "clean"}
        /\ \E i \in 1..Len(log) : log[i].status = "nonzero") =>
        /\ result = "err"
        /\ exitCode # 0

\* C6: every text that is not an integer numeral, and every numeral of an
\* integer above 100, is rejected by Percent::from_str, and a Percent that was
\* built lies in 0..100.
C6_ParseRejects ==
    (ppc # "init") =>
        /\ (~IsIntegerText(text) \/ IntOf(text) > PercentMax) => ~parsed.ok
        /\ parsed.ok => parsed.val \in 0..PercentMax

C6_Witness ==
    /\ ppc = "parsed"
    /\ text = <<"2", "5", "6">>
    /\ ~parsed.ok

\* C7: the decimal text of every integer in 0..100 parses to that integer, and
\* displaying the Percent gives the same text back.
C7_RoundTrip ==
    (IsDecimalText(text) /\ DecValue(text) <= PercentMax) =>
        /\ ppc # "init" => parsed = OkVal(DecValue(text))
        /\ ppc = "shown" => shown = text

C7_Witness ==
    /\ ppc = "shown"
    /\ text = <<"1", "0", "0">>
    /\ shown = text

\* C8: BatteryLimiter::new resolves the earliest candidate of BAT_NAME whose
\* directory exists, fails exactly when none exists, and changes no file.
C8_FirstExisting ==
    [][pc = "new" =>
        /\ bat' = "not_found" <=> batDirs \cap BatNames = {}
        /\ bat' # "not_found" =>
              \E i \in 1..Len(BAT_NAME) :
                  /\ bat' = BAT_NAME[i]
                  /\ BAT_NAME[i] \in batDirs
                  /\ \A j \in 1..(i - 1) : BAT_NAME[j] \notin batDirs
        /\ bat' = "not_found" => result' = "err" /\ pc' = "exit"
        /\ bat' # "not_found" => result' = "none"
        /\ UNCHANGED svars]_vars

C8_Witness ==
    /\ pc = "exit"
    /\ batDirs = {"BAT1", "BATC"}
    /\ bat = "BAT1"
    /\ result = "ok"

\* C9: when external step N of set(limit, persist = true) failed, no later step
\* was executed, the operation returned an error, and the effects of the
\* earlier steps are still applied.
C9_AbortOnFirstFailure ==
    (pc = "exit" /\ cmd = "set" /\ persist) =>
        \A n \in 1..Len(log) :
            log[n].status # "ok" =>
                /\ Len(log) = n
                /\ result = "err"
                /\ n > 1 => get_value(files, bat) = OkVal(limit)

\* C10: when the initial read of the control value fails in set() or clean(),
\* the operation returns an error without any external process invocation and
\* leaves the control file, the unit file and the registration unchanged.
C10_ReadFailureNoWrite ==
    [][(pc \in {"set_get_value", "clean_get_value"} /\ ~get_value(files, bat).ok) =>
        /\ pc' = "exit"
        /\ result' = "err"
        /\ exitCode' # 0
        /\ log' = <<>>
        /\ UNCHANGED svars]_vars

C10_Witness ==
    /\ pc = "exit"
    /\ cmd = "clean"
    /\ bat \in BatNames
    /\ files[ControlPath] = File(<<"x", "\n">>)
    /\ result = "err"
    /\ log = <<>>

====
